---- MODULE Spec2Model ----
(***************************************************************************)
(* A model of the Bully election client of src/lab2.py (class Client and   *)
(* ThreadedTCPRequestHandler).                                             *)
(*                                                                         *)
(* One Client has three kinds of threads:                                  *)
(*   - the main thread, which executes run(): get_members, the start of    *)
(*     the server thread, the start-up start_election and the poll loop    *)
(*     (harvest_messages, parse_message);                                  *)
(*   - the server thread (serve_forever), which accepts connections;       *)
(*   - one handler thread per accepted connection (handle, then            *)
(*     report_message).                                                    *)
(* pc[p] is the position of the main thread of process p, hnd[p][h] the    *)
(* position of handler thread h.  Time is abstracted: a sleep may end at   *)
(* any moment.                                                             *)
(*                                                                         *)
(* Two step relations are defined over the same actions:                   *)
(*   Next     the Client driven through its methods: besides every step of *)
(*            run(), the main thread may call harvest_messages from the    *)
(*            poll loop while message_flag is clear (DirectHarvest);       *)
(*   NextRun  run() exactly as written: harvest_messages is entered only   *)
(*            behind the test of line 176.                                 *)
(***************************************************************************)
EXTENDS Naturals, Integers, Sequences, FiniteSets, Bags, TLC

\* Bounds of the model.
MaxHandlers == 1      \* handler threads of one process between lines 59 and 61
MaxInject   == 2      \* messages the peers outside the model send in a run
MaxVertices == 3      \* vertices a BellmanFord graph is built from
MaxEdges    == 3      \* edges of a BellmanFord graph
MaxQuotes   == 3      \* process_quote calls on a Subscriber
MaxFeed     == 5      \* process_quote calls on the quotes of Feed

\* Python's None (leader is None or a ProcessID, a pair).
None == <<>>

\* ProcessIDs (daysToBirthday, studentID) of the scenarios.
idA == <<5, 100>>
idB == <<5, 200>>
idC == <<5, 300>>
idD == <<5, 400>>
idE == <<6, 100>>
idU == <<1, 50>>      \* a ProcessID no directory holds

Procs == {idA, idB, idC, idD, idE}

\* The message kinds of the protocol, and one that is not of the protocol.
Kinds == {"ELECTION", "OK", "COORDINATOR"}
OtherKind == "PROBE"

\* Bytes that do not unpickle to a pair.
Garbage == <<"garbage">>

VARIABLES
  dir,            \* the registry's membership: the keys of its response
  live,           \* the processes of dir that run this program
  up,             \* the other peers of dir that accept connections
  registry,       \* whether the registry answers a registration
  budget,         \* messages the peers outside the model may still send
  pc,             \* main thread: position in run()
  ret,            \* main thread: where start_election returns to
  reg,            \* outcome of get_members: "none", "ok", "failed"
  leader,         \* self.leader
  member,         \* self.member (the keys of the dict)
  serving,        \* server thread: "off", "starting", "on"
  messages,       \* self.messages, the list the attribute refers to now
  harvested,      \* the list harvest_messages returned: its items not yet
                  \* reached by the for loop of run()
  message_sync,   \* self.message_sync (an Event: set or clear)
  message_flag,   \* self.message_flag
  waiting,        \* the messages of the handler threads that stand at the
                  \* wait of report_message (line 59)
  hnd,            \* handler threads past the wait: position, message, and
                  \* the list their append goes to
  net,            \* accepted connections whose bytes are not yet read
  out,            \* the sends of the main thread's latest step
  owed,           \* items appended by report_message minus items dispatched
  gotOK,          \* the senders whose OK a handler read in this round
  lost,           \* some send_message failed
  discarded,      \* listener of p: "none", "dropped" once a handler has
                  \* discarded undecodable bytes, "later" once a handler
                  \* has decoded a message after that
  bf,             \* the BellmanFord object of src/lab3/bellman_ford.py and
                  \* what its latest shortest_paths call returned
  sub             \* the Subscriber object of src/lab3/lab3.py

vars == <<bf, sub, discarded, dir, live, up, registry, budget, pc, ret, reg, leader, member, serving,
          messages, harvested, message_sync, message_flag, waiting, hnd, net,
          out, owed, gotOK, lost>>

Handlers == 1 .. MaxHandlers

\* BellmanFord.__init__ with no initial_edges (lines 19-20): no vertex, no
\* edge, and no shortest_paths call made.
\* Subscriber.__init__ (lines 23-25). A dict is the sequence of its items
\* <<key, value>> in the order of the dict; latest_ts, whose order nothing
\* reads, is a function. "calls" and "quote" are the number of
\* process_quote calls made and the quote of the latest one.
NoQuotes ==
  [graph |-> <<>>, latest_ts |-> [pr \in {} |-> 0], cycle |-> <<>>,
   calls |-> 0, quote |-> None]

NoGraph == [vertices |-> {}, edges |-> <<>>, call |-> None, ret |-> None]

IdleHandler == [st |-> "idle", msg |-> None, ref |-> "none"]


(***************************************************************************)
(* The initial state: every Client as __init__ leaves it (lines 42-51).    *)
(* threading.Event() is created clear, so message_sync and message_flag    *)
(* both start FALSE.                                                       *)
(***************************************************************************)
\* Groups in which every modelled process runs this program; idD is a peer
\* of the directory that is dead.
GroupScenarios ==
  { <<{idA, idB, idC}, {idA, idB, idC}, {}>>,
    <<{idA, idB, idC, idD}, {idA, idB, idC}, {}>>,
    <<{idE, idB}, {idE, idB}, {}>> }

\* One process of this program among peers outside the model, of which
\* some accept connections and some refuse them.
PeerScenarios ==
  { <<{idA, idB, idC}, {idB}, {idC}>>,
    <<{idE, idB}, {idE}, {idB}>>,
    <<{idE, idB}, {idB}, {idE}>> }

Construct ==
  /\ pc = [p \in Procs |-> "get_members"]
  /\ ret = [p \in Procs |-> "poll"]
  /\ reg = [p \in Procs |-> "none"]
  /\ leader = [p \in Procs |-> None]
  /\ member = [p \in Procs |-> {}]
  /\ serving = [p \in Procs |-> "off"]
  /\ messages = [p \in Procs |-> <<>>]
  /\ harvested = [p \in Procs |-> <<>>]
  /\ message_sync = [p \in Procs |-> FALSE]
  /\ message_flag = [p \in Procs |-> FALSE]
  /\ waiting = [p \in Procs |-> EmptyBag]
  /\ hnd = [p \in Procs |-> [h \in Handlers |-> IdleHandler]]
  /\ net = [p \in Procs |-> EmptyBag]
  /\ out = [p \in Procs |-> {}]
  /\ owed = [p \in Procs |-> 0]
  /\ gotOK = [p \in Procs |-> {}]
  /\ lost = FALSE
  /\ discarded = [p \in Procs |-> "none"]
  /\ bf = NoGraph
  /\ sub = NoQuotes

InitGroup ==
  /\ \E sc \in GroupScenarios : dir = sc[1] /\ live = sc[2] /\ up = sc[3]
  /\ registry = TRUE
  /\ budget = 0
  /\ Construct

InitPeer ==
  /\ \E sc \in PeerScenarios : dir = sc[1] /\ live = sc[2] /\ up = sc[3]
  /\ registry \in BOOLEAN
  /\ budget = MaxInject
  /\ Construct

Init == InitPeer

InitRun == InitGroup \/ InitPeer

(***************************************************************************)
(* send_message (lines 118-133).                                           *)
(***************************************************************************)
\* s.connect(receiverAddress) succeeds: the receiver's listener accepts.
Accepts(d) == (d \in live /\ serving[d] = "on") \/ d \in up

\* The comparison of two ProcessIDs the election makes (lines 107 and 142):
\* Python's index 1 is the second component, the studentID.
Outranks(a, b) == a[2] > b[2]

\* send_message(d, kind) called by p, on the connections n: a receiver that
\* is no key of self.member is skipped (lines 120-122); a socket.error is
\* caught and printed, and the message is dropped (lines 132-133).
send_message(n, p, d, kind) ==
  IF d \notin member[p] THEN n
  ELSE IF Accepts(d) /\ d \in live
       THEN [n EXCEPT ![d] = @ (+) SetToBag({<<kind, p>>})]
       ELSE n

\* A loop over the receivers ds that the first failed send ends.
RECURSIVE SendEachAborting(_, _, _, _)
SendEachAborting(n, p, ds, kind) ==
  IF ds = {} THEN n
  ELSE LET d == CHOOSE x \in ds : TRUE
       IN  IF d \in member[p] /\ ~Accepts(d) THEN n
           ELSE SendEachAborting(send_message(n, p, d, kind), p, ds \ {d}, kind)

\* `for pid in ...: self.send_message(pid, kind)` over the receivers ds.
RECURSIVE SendEach(_, _, _, _)
SendEach(n, p, ds, kind) ==
  IF ds = {} THEN n
  ELSE LET d == CHOOSE x \in ds : TRUE
       IN  SendEach(send_message(n, p, d, kind), p, ds \ {d}, kind)

\* What the sends to ds did: <<receiver, kind, whether it was delivered>>
\* for every receiver send_message did not skip.
Sends(p, ds, kind) == {<<d, kind, Accepts(d)>> : d \in ds \cap member[p]}

SomeFailed(p, ds) == \E d \in ds \cap member[p] : ~Accepts(d)

\* A send that fails raises into the caller.
SendRaisesOnFailure(p, ds) == SomeFailed(p, ds)

\* Whether a send to one of ds raises into the caller: never, the
\* socket.error is caught inside send_message (lines 127 and 132-133).
SendRaises(p, ds) == FALSE

\* Where the main thread stands after its sends to ds: at `there`, or
\* nowhere if an exception ended the thread.
AfterSends(p, ds, there) == IF SendRaises(p, ds) THEN "raised" ELSE there

(***************************************************************************)
(* The main thread: run() (lines 162-182).                                 *)
(***************************************************************************)
\* Where run() stands after get_members returned: the exception of a failed
\* registration is caught inside get_members (lines 94-95), so line 167 is
\* next in either case.
AfterRegistration(answered) == "start_server"

\* get_members (lines 72-95): the registry answers with the membership, or
\* the connection or the decoding raises; the exception is caught and
\* printed, and self.member stays {}.
get_members(p) ==
  /\ p \in live
  /\ pc[p] = "get_members"
  /\ reg' = [reg EXCEPT ![p] = IF registry THEN "ok" ELSE "failed"]
  /\ member' = [member EXCEPT ![p] = IF registry THEN dir ELSE @]
  /\ pc' = [pc EXCEPT ![p] = AfterRegistration(registry)]
  /\ out' = [out EXCEPT ![p] = {}]
  /\ UNCHANGED <<bf, sub, discarded, waiting, dir, live, up, registry, budget, ret, leader, serving, messages,
                 harvested, message_sync, message_flag, hnd, net, owed,
                 gotOK, lost>>

\* Lines 167-168: the server thread is started; run() does not wait for it.
start_server(p) ==
  /\ pc[p] = "start_server"
  /\ serving' = [serving EXCEPT ![p] = "starting"]
  /\ pc' = [pc EXCEPT ![p] = "start_election"]
  /\ ret' = [ret EXCEPT ![p] = "poll"]
  /\ out' = [out EXCEPT ![p] = {}]
  /\ UNCHANGED <<bf, sub, discarded, waiting, dir, live, up, registry, budget, reg, leader, member, messages,
                 harvested, message_sync, message_flag, hnd, net, owed,
                 gotOK, lost>>

\* The peers start_election sends ELECTION to (lines 141-142).
HigherPeers(p) == {d \in member[p] : Outranks(d, p)}

\* start_election, lines 137-144: clear the leader, send ELECTION to the
\* higher peers; then the thread sleeps (line 147).
start_election(p) ==
  /\ pc[p] = "start_election"
  /\ leader' = [leader EXCEPT ![p] = None]
  /\ net' = SendEach(net, p, HigherPeers(p), "ELECTION")
  /\ out' = [out EXCEPT ![p] = Sends(p, HigherPeers(p), "ELECTION")]
  /\ lost' = (lost \/ SomeFailed(p, HigherPeers(p)))
  /\ gotOK' = [gotOK EXCEPT ![p] = {}]
  /\ pc' = [pc EXCEPT ![p] = AfterSends(p, HigherPeers(p), "window")]
  /\ UNCHANGED <<bf, sub, discarded, waiting, dir, live, up, registry, budget, ret, reg, member, serving, messages,
                 harvested, message_sync, message_flag, hnd, owed>>

\* Every key of self.member, the process's own included.
AllMembers(p) == member[p]

\* The peers announce_leader sends COORDINATOR to (lines 158-159).
OtherPeers(p) == {d \in member[p] : d # p}

\* A test that also asks that no OK was received during the window.
NoLeaderNoOK(p) == leader[p] = None /\ gotOK[p] = {}

\* `if not self.leader` (line 150).
NoLeader(p) == leader[p] = None

\* start_election, lines 147-152: the sleep ends; with no leader set the
\* process makes itself the leader and calls announce_leader, otherwise
\* start_election returns to its caller: run() (line 171) or parse_message
\* (line 109).
window_expires(p) ==
  /\ pc[p] = "window"
  /\ leader' = [leader EXCEPT ![p] = IF NoLeader(p) THEN p ELSE @]
  /\ pc' = [pc EXCEPT ![p] = IF NoLeader(p) THEN "announce" ELSE ret[p]]
  /\ gotOK' = [gotOK EXCEPT ![p] = {}]
  /\ out' = [out EXCEPT ![p] = {}]
  /\ UNCHANGED <<bf, sub, discarded, waiting, dir, live, up, registry, budget, ret, reg, member,
                 serving, messages, harvested, message_sync, message_flag,
                 hnd, net, owed, lost>>

\* announce_leader (lines 155-160), called at line 153: COORDINATOR is sent
\* to the other peers; then start_election returns to its caller.
announce_leader(p) ==
  /\ pc[p] = "announce"
  /\ net' = SendEach(net, p, OtherPeers(p), "COORDINATOR")
  /\ out' = [out EXCEPT ![p] = Sends(p, OtherPeers(p), "COORDINATOR")]
  /\ lost' = (lost \/ SomeFailed(p, OtherPeers(p)))
  /\ pc' = [pc EXCEPT ![p] = AfterSends(p, OtherPeers(p), ret[p])]
  /\ UNCHANGED <<bf, sub, discarded, waiting, dir, live, up, registry, budget, ret, reg, leader,
                 member, serving, messages, harvested, message_sync,
                 message_flag, hnd, owed, gotOK>>


(***************************************************************************)
(* harvest_messages (lines 63-70), called from the poll loop.              *)
(***************************************************************************)
\* Line 65: message_sync.clear().
HarvestClear(p) ==
  /\ message_sync' = [message_sync EXCEPT ![p] = FALSE]
  /\ pc' = [pc EXCEPT ![p] = "swap"]
  /\ out' = [out EXCEPT ![p] = {}]
  /\ UNCHANGED <<bf, sub, discarded, waiting, dir, live, up, registry, budget, ret, reg, leader, member, serving,
                 messages, harvested, message_flag, hnd, net, owed, gotOK,
                 lost>>

\* Lines 175-177 and 180: one turn of the while loop. With message_flag set
\* harvest_messages is called; otherwise the thread sleeps a second and
\* tests again.
poll(p) ==
  /\ pc[p] = "poll"
  /\ IF message_flag[p] THEN HarvestClear(p) ELSE UNCHANGED vars

\* A first call of harvest_messages made while message_sync has never been
\* set: a call the method allows and run() does not make, because
\* message_flag is set only behind the wait of line 59.
DirectHarvest(p) ==
  /\ pc[p] = "poll"
  /\ ~message_flag[p]
  /\ ~message_sync[p]
  /\ HarvestClear(p)

\* A handler's reference to a list after `self.messages = []`: the list it
\* read from self.messages is now the one harvest_messages returns.
AfterSwap(r) == IF r = "buf" THEN "old" ELSE r

\* Lines 66-67: messages = self.messages; self.messages = []. An append
\* between the two lines lands in the same list as one before line 66, so
\* the two lines are one step.
HarvestSwap(p) ==
  /\ pc[p] = "swap"
  /\ harvested' = [harvested EXCEPT ![p] = messages[p]]
  /\ messages' = [messages EXCEPT ![p] = <<>>]
  /\ hnd' = [hnd EXCEPT ![p] =
               [h \in Handlers |-> [@[h] EXCEPT !.ref = AfterSwap(@)]]]
  /\ pc' = [pc EXCEPT ![p] = "flag_clear"]
  /\ out' = [out EXCEPT ![p] = {}]
  /\ UNCHANGED <<bf, sub, discarded, waiting, dir, live, up, registry, budget, ret, reg, leader, member, serving,
                 message_sync, message_flag, net, owed, gotOK, lost>>

\* Line 68: message_flag.clear().
HarvestFlagClear(p) ==
  /\ pc[p] = "flag_clear"
  /\ message_flag' = [message_flag EXCEPT ![p] = FALSE]
  /\ pc' = [pc EXCEPT ![p] = "sync_set"]
  /\ out' = [out EXCEPT ![p] = {}]
  /\ UNCHANGED <<bf, sub, discarded, waiting, dir, live, up, registry, budget, ret, reg, leader, member, serving,
                 messages, harvested, message_sync, hnd, net, owed, gotOK,
                 lost>>

\* Lines 69-70: message_sync.set(); return messages.
HarvestSyncSet(p) ==
  /\ pc[p] = "sync_set"
  /\ message_sync' = [message_sync EXCEPT ![p] = TRUE]
  /\ pc' = [pc EXCEPT ![p] = "for"]
  /\ out' = [out EXCEPT ![p] = {}]
  /\ UNCHANGED <<bf, sub, discarded, waiting, dir, live, up, registry, budget, ret, reg, leader, member, serving,
                 messages, harvested, message_flag, hnd, net, owed, gotOK,
                 lost>>

(***************************************************************************)
(* parse_message (lines 103-116), called by the for loop of run() (lines   *)
(* 178-179) with the next item of the harvested list.                      *)
(***************************************************************************)
\* Line 107: the receiver answers an ELECTION of this sender.
AnswersElection(p, sender) == Outranks(p, sender)

\* The leader if a COORDINATOR were accepted only from a sender that
\* outranks the receiver.
AdoptIfHigher(p, sender) == IF Outranks(sender, p) THEN sender ELSE leader[p]

\* The leader if a COORDINATOR of the present leader withdrew it.
AdoptOrWithdraw(p, sender) == IF leader[p] = sender THEN None ELSE sender

\* The leader after a COORDINATOR of sender (line 116).
Adopt(p, sender) == sender

parse_message(p, kind, sender) ==
  \/ /\ kind = "ELECTION"
     /\ AnswersElection(p, sender)
     /\ net' = send_message(net, p, sender, "OK")
     /\ out' = [out EXCEPT ![p] = Sends(p, {sender}, "OK")]
     /\ lost' = (lost \/ SomeFailed(p, {sender}))
     /\ pc' = [pc EXCEPT ![p] = AfterSends(p, {sender}, "start_election")]
     /\ ret' = [ret EXCEPT ![p] = "for"]
     /\ UNCHANGED leader
  \/ /\ kind = "ELECTION"
     /\ ~AnswersElection(p, sender)
     /\ out' = [out EXCEPT ![p] = {}]
     /\ UNCHANGED <<pc, ret, leader, net, lost>>
  \/ /\ kind = "OK"
     /\ out' = [out EXCEPT ![p] = {}]
     /\ UNCHANGED <<pc, ret, leader, net, lost>>
  \/ /\ kind = "COORDINATOR"
     /\ leader' = [leader EXCEPT ![p] = Adopt(p, sender)]
     /\ out' = [out EXCEPT ![p] = {}]
     /\ UNCHANGED <<pc, ret, net, lost>>
  \/ /\ kind \notin Kinds
     /\ out' = [out EXCEPT ![p] = {}]
     /\ UNCHANGED <<pc, ret, leader, net, lost>>

\* Lines 178-179: the for loop takes the next item of the list and calls
\* parse_message.
dispatch(p) ==
  /\ pc[p] = "for"
  /\ harvested[p] # <<>>
  /\ harvested' = [harvested EXCEPT ![p] = Tail(@)]
  /\ owed' = [owed EXCEPT ![p] = @ - 1]
  /\ parse_message(p, Head(harvested[p])[1], Head(harvested[p])[2])
  /\ UNCHANGED <<bf, sub, discarded, waiting, dir, live, up, registry, budget, reg, member, serving, messages,
                 message_sync, message_flag, hnd, gotOK>>

\* A handler's reference to the harvested list once the for loop has ended:
\* an append to that list is seen by nobody.
AfterLoop(r) == IF r = "old" THEN "gone" ELSE r

\* Lines 178 and 180: the list is exhausted; the thread sleeps a second and
\* goes back to the test of line 175.
loop_ends(p) ==
  /\ pc[p] = "for"
  /\ harvested[p] = <<>>
  /\ hnd' = [hnd EXCEPT ![p] =
               [h \in Handlers |-> [@[h] EXCEPT !.ref = AfterLoop(@)]]]
  /\ pc' = [pc EXCEPT ![p] = "poll"]
  /\ out' = [out EXCEPT ![p] = {}]
  /\ UNCHANGED <<bf, sub, discarded, waiting, dir, live, up, registry, budget, ret, reg, leader, member, serving,
                 messages, harvested, message_sync, message_flag, net, owed,
                 gotOK, lost>>


(***************************************************************************)
(* The server thread and the handler threads.                              *)
(***************************************************************************)
\* start_server (lines 184-189): the listener is bound and serve_forever
\* accepts connections.
serve_forever(p) ==
  /\ serving[p] = "starting"
  /\ serving' = [serving EXCEPT ![p] = "on"]
  /\ UNCHANGED <<bf, sub, discarded, waiting, dir, live, up, registry, budget, pc, ret, reg, leader, member,
                 messages, harvested, message_sync, message_flag, hnd, net,
                 out, owed, gotOK, lost>>

\* A handler that takes whatever it read for a message.
DecodesAnything(m) == TRUE

\* pickle.loads and the unpacking of line 27 succeed on a pair only.
Decodes(m) == Len(m) = 2

\* handle, lines 24-28 and 30-31: a handler thread is started for the
\* connection, reads and decodes its bytes; an exception is printed and the
\* thread ends, otherwise the thread calls report_message (line 29) and
\* stands at message_sync.wait() (line 59).
handle(p) ==
  /\ serving[p] = "on"
  /\ \E m \in BagToSet(net[p]) :
       /\ net' = [net EXCEPT ![p] = @ (-) SetToBag({m})]
       /\ IF Decodes(m)
          THEN /\ waiting' = [waiting EXCEPT ![p] = @ (+) SetToBag({m})]
               /\ gotOK' = [gotOK EXCEPT ![p] =
                              IF m[1] = "OK" /\ pc[p] = "window"
                              THEN @ \cup {m[2]} ELSE @]
               /\ discarded' = [discarded EXCEPT ![p] =
                                  IF @ = "dropped" THEN "later" ELSE @]
          ELSE /\ discarded' = [discarded EXCEPT ![p] =
                                  IF @ = "none" THEN "dropped" ELSE @]
               /\ UNCHANGED <<waiting, gotOK>>
  /\ UNCHANGED <<bf, sub, dir, live, up, registry, budget, pc, ret, reg, leader, member,
                 serving, messages, harvested, message_sync, message_flag,
                 hnd, out, owed, lost>>

\* report_message, line 59: message_sync.wait() returns once the event is
\* set. The threads that stand at the wait differ in their message only;
\* the one that goes on is handler thread h from here.
report_wait(p, h) ==
  /\ message_sync[p]
  /\ hnd[p][h].st = "idle"
  /\ \A g \in Handlers : hnd[p][g].st = "idle" => h <= g
  /\ \E m \in BagToSet(waiting[p]) :
       /\ waiting' = [waiting EXCEPT ![p] = @ (-) SetToBag({m})]
       /\ hnd' = [hnd EXCEPT ![p][h] =
                    [st |-> "load", msg |-> m, ref |-> "none"]]
  /\ UNCHANGED <<bf, sub, discarded, dir, live, up, registry, budget, pc, ret, reg, leader, member,
                 serving, messages, harvested, message_sync, message_flag,
                 net, out, owed, gotOK, lost>>

\* report_message, line 60, first half: self.messages is read. The read and
\* the call of append are separate steps of the interpreter, and no lock is
\* held between them.
report_load(p, h) ==
  /\ hnd[p][h].st = "load"
  /\ hnd' = [hnd EXCEPT ![p][h].st = "append", ![p][h].ref = "buf"]
  /\ UNCHANGED <<bf, sub, discarded, waiting, dir, live, up, registry, budget, pc, ret, reg, leader, member,
                 serving, messages, harvested, message_sync, message_flag,
                 net, out, owed, gotOK, lost>>

\* A handler thread that, with its append, makes the sender of a
\* COORDINATOR the leader.
report_append_adopting(p, h) ==
  /\ hnd[p][h].st = "append"
  /\ messages' = [messages EXCEPT ![p] =
                    IF hnd[p][h].ref = "buf" THEN Append(@, hnd[p][h].msg)
                    ELSE @]
  /\ harvested' = [harvested EXCEPT ![p] =
                     IF hnd[p][h].ref = "old" THEN Append(@, hnd[p][h].msg)
                     ELSE @]
  /\ owed' = [owed EXCEPT ![p] = @ + 1]
  /\ hnd' = [hnd EXCEPT ![p][h].st = "flag"]
  /\ leader' = [leader EXCEPT ![p] =
                  IF hnd[p][h].msg[1] = "COORDINATOR" THEN hnd[p][h].msg[2]
                  ELSE @]
  /\ UNCHANGED <<bf, sub, discarded, waiting, dir, live, up, registry, budget, pc, ret, reg,
                 member, serving, message_sync, message_flag, net, out,
                 gotOK, lost>>

\* report_message, line 60, second half: append on the list that was read:
\* the list self.messages still refers to ("buf"), the list harvest_messages
\* has taken and the for loop has not finished ("old"), or a list nobody
\* reads any more ("gone").
report_append(p, h) ==
  /\ hnd[p][h].st = "append"
  /\ messages' = [messages EXCEPT ![p] =
                    IF hnd[p][h].ref = "buf" THEN Append(@, hnd[p][h].msg)
                    ELSE @]
  /\ harvested' = [harvested EXCEPT ![p] =
                     IF hnd[p][h].ref = "old" THEN Append(@, hnd[p][h].msg)
                     ELSE @]
  /\ owed' = [owed EXCEPT ![p] = @ + 1]
  /\ hnd' = [hnd EXCEPT ![p][h].st = "flag"]
  /\ UNCHANGED <<bf, sub, discarded, waiting, dir, live, up, registry, budget, pc, ret, reg, leader, member,
                 serving, message_sync, message_flag, net, out, gotOK, lost>>

\* report_message, line 61: message_flag.set(); the thread ends.
report_flag(p, h) ==
  /\ hnd[p][h].st = "flag"
  /\ message_flag' = [message_flag EXCEPT ![p] = TRUE]
  /\ hnd' = [hnd EXCEPT ![p][h] = IdleHandler]
  /\ UNCHANGED <<bf, sub, discarded, waiting, dir, live, up, registry, budget, pc, ret, reg, leader, member,
                 serving, messages, harvested, message_sync, net, out, owed,
                 gotOK, lost>>

(***************************************************************************)
(* The peers outside the model.                                            *)
(***************************************************************************)
\* What a peer outside the model may write to a connection: a message of
\* any kind from a peer of the directory or from an unknown sender, or
\* bytes that do not decode.
PeerMessages(p) ==
  {<<k, s>> : k \in Kinds, s \in (dir \ live) \cup (IF dir = {idE, idB} THEN {idU} ELSE {})}
    \cup (IF dir = {idE, idB} THEN {<<OtherKind, idB>>} ELSE {Garbage})

\* A peer connects to the listener of p and writes. The listener accepts
\* one connection at a time; handle reads connections in any order, so the
\* order of arrival is the order of these steps.
peer_sends(p) ==
  /\ budget > 0
  /\ serving[p] = "on"
  /\ net[p] = EmptyBag
  /\ \E m \in PeerMessages(p) :
       net' = [net EXCEPT ![p] = @ (+) SetToBag({m})]
  /\ budget' = budget - 1
  /\ UNCHANGED <<bf, sub, discarded, waiting, dir, live, up, registry, pc, ret, reg, leader, member, serving,
                 messages, harvested, message_sync, message_flag, hnd, out,
                 owed, gotOK, lost>>

(***************************************************************************)
(* The specifications.                                                     *)
(***************************************************************************)
MainThread(p) ==
  \/ get_members(p)
  \/ start_server(p)
  \/ start_election(p)
  \/ window_expires(p)
  \/ announce_leader(p)
  \/ poll(p)
  \/ HarvestSwap(p)
  \/ HarvestFlagClear(p)
  \/ HarvestSyncSet(p)
  \/ dispatch(p)
  \/ loop_ends(p)

HandlerThread(p, h) ==
  \/ report_wait(p, h)
  \/ report_load(p, h)
  \/ report_append(p, h)
  \/ report_flag(p, h)

Program ==
  \E p \in Procs :
    \/ MainThread(p)
    \/ serve_forever(p)
    \/ handle(p)
    \/ \E h \in Handlers : HandlerThread(p, h)
    \/ peer_sends(p)

\* The Client driven through its methods.
Next == Program \/ \E p \in Procs : DirectHarvest(p)

Spec == Init /\ [][Next]_vars


\* run() as written: the steps of Next that are no direct call of
\* harvest_messages. In these behaviours message_sync is never set, so no
\* thread gets past the wait of line 59 and message_flag stays clear.
NextRun == Next /\ ~(\E p \in Procs : DirectHarvest(p))

SpecRun == InitRun /\ [][NextRun]_vars

\* The scheduler lets every thread that can run make its next step.
Fairness ==
  \A p \in Procs :
    /\ WF_vars(MainThread(p))
    /\ WF_vars(serve_forever(p))
    /\ WF_vars(handle(p))
    /\ \A h \in Handlers : WF_vars(HandlerThread(p, h))

\* The closed groups, every process executing run(), fairly scheduled.
SpecGroupFair == InitGroup /\ [][NextRun]_vars /\ Fairness


(***************************************************************************)
(* BellmanFord (src/lab3/bellman_ford.py).  bf.vertices is self.vertices;  *)
(* bf.edges is self.edges as the sequence of its edges <<u, v, w>> in the  *)
(* order add_edge first added them; bf.call is <<start_vertex>> of the     *)
(* shortest_paths call and bf.ret the tuple it returned, both None before  *)
(* the call.  A distance is inf or <<d>>, a                                *)
(* predecessor None or <<u>>, negative_cycle None or <<u, v>>.             *)
(***************************************************************************)
Vertices == 1 .. MaxVertices

\* The edge weights the graphs are built from.
Weights == {-2, 1}

\* float('inf') (line 89).
inf == <<>>

\* The default of the parameter tolerance (line 50).
Tolerance == 0

\* The position of edge (u, v) in es, 0 if there is none.
EdgeIndex(es, u, v) ==
  IF \E i \in 1 .. Len(es) : es[i][1] = u /\ es[i][2] = v
  THEN CHOOSE i \in 1 .. Len(es) : es[i][1] = u /\ es[i][2] = v
  ELSE 0

\* add_edge (lines 26-42) on a graph with fewer than MaxEdges edges or on
\* an edge the graph has. With from_vertex = to_vertex it raises ValueError
\* (lines 35-37) and changes nothing. The graph is built before the one
\* shortest_paths call of a behaviour: the call changes nothing of the
\* object, so what it returns does not depend on earlier calls.
add_edge(u, v, w) ==
  /\ bf.call = None
  /\ u # v
  /\ EdgeIndex(bf.edges, u, v) # 0 \/ Len(bf.edges) < MaxEdges
  /\ bf' = [vertices |-> bf.vertices \cup {u, v},
            edges |-> IF EdgeIndex(bf.edges, u, v) # 0
                      THEN [bf.edges EXCEPT ![EdgeIndex(bf.edges, u, v)] =
                              <<u, v, w>>]
                      ELSE Append(bf.edges, <<u, v, w>>),
            call |-> None,
            ret |-> None]

\* The keys of self.edges in the order of the dict: the order in which
\* each from_vertex was first added.
RECURSIVE FromOrder(_)
FromOrder(es) ==
  IF es = <<>> THEN <<>>
  ELSE LET r == FromOrder(SubSeq(es, 1, Len(es) - 1))
           u == es[Len(es)][1]
       IN  IF \E i \in 1 .. Len(r) : r[i] = u THEN r ELSE Append(r, u)

RECURSIVE EdgesFrom(_, _)
EdgesFrom(f, es) ==
  IF f = <<>> THEN <<>>
  ELSE SelectSeq(es, LAMBDA e : e[1] = Head(f)) \o EdgesFrom(Tail(f), es)

\* `for u in self.edges: for v in self.edges[u]` (lines 95-96, 106-107):
\* the edges in the order the two loops meet them.
IterEdges(es) == EdgesFrom(FromOrder(es), es)

\* Line 98 (and 109): distance[v] - (distance[u] + w) > tolerance, in
\* floating point: inf - inf is nan and d - inf is -inf, neither is greater
\* than the tolerance; inf - d is inf.
Relaxes(dv, du, w, tol) ==
  IF du = inf THEN FALSE
  ELSE IF dv = inf THEN TRUE
  ELSE dv[1] - (du[1] + w) > tol

\* Lines 97-102 for one edge. st.returned says that line 100 has returned.
RelaxEdge(st, e, start, tol) ==
  IF st.returned THEN st
  ELSE IF Relaxes(st.distance[e[2]], st.distance[e[1]], e[3], tol)
  THEN IF e[2] = start
       THEN [st EXCEPT !.returned = TRUE, !.negative_cycle = <<e[1], e[2]>>]
       ELSE [st EXCEPT !.distance[e[2]] = <<st.distance[e[1]][1] + e[3]>>,
                       !.predecessor[e[2]] = <<e[1]>>]
  ELSE st

\* Lines 95-102: one pass over the edges.
RECURSIVE RelaxAll(_, _, _, _)
RelaxAll(st, es, start, tol) ==
  IF es = <<>> THEN st
  ELSE RelaxAll(RelaxEdge(st, Head(es), start, tol), Tail(es), start, tol)

\* One pass in all: what `for i in range(1)` would make of line 94.
OnePass(g) == 1

\* Line 94: range(len(self.vertices)).
Passes(g) == Cardinality(g.vertices)

\* Lines 94-102: the passes.
RECURSIVE Relaxation(_, _, _, _, _)
Relaxation(st, n, es, start, tol) ==
  IF n = 0 THEN st
  ELSE Relaxation(RelaxAll(st, es, start, tol), n - 1, es, start, tol)

\* Lines 105-112: the first edge the loops meet that still relaxes, or
\* None.
RECURSIVE FirstRelaxing(_, _, _)
FirstRelaxing(st, es, tol) ==
  IF es = <<>> THEN None
  ELSE IF Relaxes(st.distance[Head(es)[2]], st.distance[Head(es)[1]],
                  Head(es)[3], tol)
       THEN <<Head(es)[1], Head(es)[2]>>
       ELSE FirstRelaxing(st, Tail(es), tol)

\* shortest_paths (lines 86-112): the tuple (distance, predecessor,
\* negative_cycle) it returns.
shortest_paths(g, start, tol) ==
  LET st0 == [distance |-> [v \in g.vertices \cup {start} |->
                              IF v = start THEN <<0>> ELSE inf],
              predecessor |-> [v \in g.vertices |-> None],
              negative_cycle |-> None,
              returned |-> FALSE]
      st  == Relaxation(st0, Passes(g), IterEdges(g.edges), start, tol)
  IN  IF st.returned
      THEN <<st.distance, st.predecessor, st.negative_cycle>>
      ELSE <<st.distance, st.predecessor,
             FirstRelaxing(st, IterEdges(g.edges), tol)>>

\* A call g.shortest_paths(start) with the default tolerance.
call_shortest_paths(start) ==
  /\ bf.call = None
  /\ start \in bf.vertices
  /\ bf' = [bf EXCEPT !.call = <<start>>,
                      !.ret = shortest_paths(bf, start, Tolerance)]

clientVars == <<discarded, dir, live, up, registry, budget, pc, ret, reg,
                leader, member, serving, messages, harvested, message_sync,
                message_flag, waiting, hnd, net, out, owed, gotOK, lost>>

\* A BellmanFord object alone: no Client runs.
InitBF ==
  /\ dir = {} /\ live = {} /\ up = {}
  /\ registry = TRUE
  /\ budget = 0
  /\ Construct

NextBF ==
  \/ \E u, v \in Vertices, w \in Weights :
       add_edge(u, v, w) /\ UNCHANGED <<clientVars, sub>>
  \/ \E start \in Vertices :
       call_shortest_paths(start) /\ UNCHANGED <<clientVars, sub>>

SpecBF == InitBF /\ [][NextBF]_vars


(***************************************************************************)
(* Subscriber (src/lab3/lab3.py): process_quote with what it calls         *)
(* (update_graph, check_arbitrage, find_cycle) and rm_stale_quotes.  The   *)
(* quotes are well formed: two different currencies and a positive finite  *)
(* rate.  Time is counted in half seconds.                                 *)
(***************************************************************************)
Currencies == {"USD", "EUR", "GBP"}

\* -math.log(rate) (line 61) of the rates the quotes carry: e and 1/e.
LogWeights == {-1, 1}

\* The timestamps the quotes carry, and the readings of time.time() (line
\* 143) rm_stale_quotes is called at.
Timestamps == {0, 2}
ClockReadings == {4, 6}

\* EXPIRATION_TIME (line 17): 1.5 seconds.
EXPIRATION_TIME == 3

\* Dicts: the position of key k in dict d, 0 if d has no such key.
DictIndex(d, k) ==
  IF \E i \in 1 .. Len(d) : d[i][1] = k
  THEN CHOOSE i \in 1 .. Len(d) : d[i][1] = k
  ELSE 0

\* k in d
DictHas(d, k) == DictIndex(d, k) # 0

\* d[k]
DictGet(d, k) == d[DictIndex(d, k)][2]

\* d[k] = v: a key the dict has keeps its position, a new key goes last.
DictSet(d, k, v) ==
  IF DictHas(d, k) THEN [d EXCEPT ![DictIndex(d, k)] = <<k, v>>]
  ELSE Append(d, <<k, v>>)

\* del d[k]
DictDel(d, k) == SelectSeq(d, LAMBDA e : e[1] # k)

\* self.graph.setdefault(a, {})[b] = w (lines 69 and 70).
SetEdge(g, a, b, w) ==
  LET g0 == IF DictHas(g, a) THEN g ELSE Append(g, <<a, <<>>>>)
  IN  DictSet(g0, a, DictSet(DictGet(g0, a), b, w))

\* update_graph (lines 67-70).
update_graph(g, c1, c2, w) == SetEdge(SetEdge(g, c1, c2, w), c2, c1, -w)

\* `for src, neighbors in self.graph.items(): for dest, weight in
\* neighbors.items()` (lines 78-79): the edges <<src, dest, weight>> in the
\* order of the loops.
RECURSIVE EdgesOf(_, _)
EdgesOf(src, neighbors) ==
  IF neighbors = <<>> THEN <<>>
  ELSE <<<<src, Head(neighbors)[1], Head(neighbors)[2]>>>>
         \o EdgesOf(src, Tail(neighbors))

RECURSIVE GraphEdges(_)
GraphEdges(g) ==
  IF g = <<>> THEN <<>>
  ELSE EdgesOf(Head(g)[1], Head(g)[2]) \o GraphEdges(Tail(g))

\* Lines 75-80: the BellmanFord object check_arbitrage builds. Its
\* add_edge calls come grouped by from_vertex, so its edges are in the
\* order of the calls.
QuoteGraph(g) ==
  [vertices |-> {e[1] : e \in {GraphEdges(g)[i] : i \in 1 .. Len(GraphEdges(g))}}
                  \cup {e[2] : e \in {GraphEdges(g)[i] : i \in 1 .. Len(GraphEdges(g))}},
   edges |-> GraphEdges(g),
   call |-> None,
   ret |-> None]

\* find_cycle, lines 92-95: follow the predecessors from node until one is
\* None or was visited; the result is None or <<node>>.
RECURSIVE FirstRevisited(_, _, _)
FirstRevisited(predecessors, node, visited) ==
  IF node = None THEN None
  ELSE IF node[1] \in visited THEN node
  ELSE FirstRevisited(predecessors,
                      IF node[1] \in DOMAIN predecessors
                      THEN predecessors[node[1]] ELSE None,
                      visited \cup {node[1]})

\* find_cycle, lines 100-105: append the nodes from node along the
\* predecessors until cycle_start comes again.
RECURSIVE CollectCycle(_, _, _, _)
CollectCycle(predecessors, cycle_start, node, cycle) ==
  LET next == predecessors[node][1]
  IN  IF next = cycle_start THEN Append(Append(cycle, node), next)
      ELSE CollectCycle(predecessors, cycle_start, next, Append(cycle, node))

\* list.reverse() (line 106).
RECURSIVE Reverse(_)
Reverse(q) == IF q = <<>> THEN <<>> ELSE Append(Reverse(Tail(q)), Head(q))

\* find_cycle (lines 89-107).
find_cycle(predecessors, start) ==
  LET node == FirstRevisited(predecessors, <<start>>, {})
  IN  IF node = None THEN <<>>
      ELSE Reverse(CollectCycle(predecessors, node[1], node[1], <<>>))

\* check_arbitrage (lines 72-87): self.cycle after it, given self.cycle
\* before. The start node is the first key of self.graph.
check_arbitrage(g, cycle) ==
  LET returned == shortest_paths(QuoteGraph(g), g[1][1], Tolerance)
  IN  IF returned[3] # None THEN find_cycle(returned[2], returned[3][1])
      ELSE cycle

\* A quote with timestamp ts for a pair whose recorded timestamp is later.
OutOfSequenceStrictly(latest_ts, pair, ts) ==
  pair \in DOMAIN latest_ts /\ ts < latest_ts[pair]

\* Line 52: the quote is out of sequence.
OutOfSequence(latest_ts, pair, ts) ==
  pair \in DOMAIN latest_ts /\ ts <= latest_ts[pair]

\* process_quote (lines 47-65) of the quote (c1, c2, rate, ts), w being
\* -math.log(rate). rept_arbitrage (lines 109-139) only prints.
process_quote(c1, c2, w, ts) ==
  /\ c1 # c2
  /\ IF OutOfSequence(sub.latest_ts, <<c1, c2>>, ts)
     THEN sub' = [sub EXCEPT !.calls = @ + 1, !.quote = <<c1, c2, w, ts>>]
     ELSE sub' = [graph |-> update_graph(sub.graph, c1, c2, w),
                  latest_ts |-> [pr \in DOMAIN sub.latest_ts \cup {<<c1, c2>>} |->
                                   IF pr = <<c1, c2>> THEN ts
                                   ELSE sub.latest_ts[pr]],
                  cycle |-> check_arbitrage(update_graph(sub.graph, c1, c2, w),
                                            sub.cycle),
                  calls |-> sub.calls + 1,
                  quote |-> <<c1, c2, w, ts>>]

\* Line 144: the pairs whose quote is older than EXPIRATION_TIME.
Stale(latest_ts, current_time) ==
  {pr \in DOMAIN latest_ts : (current_time - latest_ts[pr]) > EXPIRATION_TIME}

\* Lines 148-151: the edge from a to b is deleted if it is there.
DelEdge(g, a, b) ==
  IF DictHas(DictGet(g, a), b) THEN DictSet(g, a, DictDel(DictGet(g, a), b))
  ELSE g

\* Lines 146-151 for the pairs to_remove: both edges of each pair go. The
\* deletions of different pairs do not depend on their order.
RECURSIVE RemovePairs(_, _)
RemovePairs(g, to_remove) ==
  IF to_remove = {} THEN g
  ELSE LET pr == CHOOSE x \in to_remove : TRUE
       IN  RemovePairs(DelEdge(DelEdge(g, pr[1], pr[2]), pr[2], pr[1]),
                       to_remove \ {pr})

\* rm_stale_quotes (lines 141-152) called when time.time() reads
\* current_time.
rm_stale_quotes(current_time) ==
  /\ sub.calls > 0
  /\ sub' = [sub EXCEPT
               !.graph = RemovePairs(@, Stale(sub.latest_ts, current_time)),
               !.latest_ts = [pr \in DOMAIN sub.latest_ts
                                       \ Stale(sub.latest_ts, current_time) |->
                                sub.latest_ts[pr]]]

\* A Subscriber alone, its methods called as get_quotes calls them (lines
\* 44-45).
InitSub ==
  /\ dir = {} /\ live = {} /\ up = {}
  /\ registry = TRUE
  /\ budget = 0
  /\ Construct

NextSub ==
  \/ \E c1, c2 \in Currencies, w \in LogWeights, ts \in Timestamps :
       /\ sub.calls < MaxQuotes
       /\ process_quote(c1, c2, w, ts) /\ UNCHANGED <<clientVars, bf>>
  \/ \E current_time \in ClockReadings :
       rm_stale_quotes(current_time) /\ UNCHANGED <<clientVars, bf>>

SpecSub == InitSub /\ [][NextSub]_vars

\* A Subscriber fed from four currencies: a quote of each market of a
\* triangle that USD leads into, and repeated quotes of one market at an
\* equal and at a later timestamp.
Feed ==
  {<<"USD", "EUR", -1, 0>>, <<"EUR", "GBP", -1, 0>>, <<"GBP", "JPY", -1, 0>>,
   <<"JPY", "EUR", -1, 0>>, <<"JPY", "EUR", 1, 0>>, <<"JPY", "EUR", 1, 2>>}

NextFeed ==
  \/ \E q \in Feed :
       /\ sub.calls < MaxFeed
       /\ process_quote(q[1], q[2], q[3], q[4]) /\ UNCHANGED <<clientVars, bf>>
  \/ \E current_time \in ClockReadings :
       rm_stale_quotes(current_time) /\ UNCHANGED <<clientVars, bf>>

SpecFeed == InitSub /\ [][NextFeed]_vars


(***************************************************************************)
(* The properties.                                                         *)
(***************************************************************************)
\* The order of ProcessIDs the specification states: lexicographic over
\* (priority, tiebreaker).
Higher(a, b) == a[1] > b[1] \/ (a[1] = b[1] /\ a[2] > b[2])

MaxID(S) == CHOOSE m \in S : \A x \in S : x = m \/ Higher(m, x)

\* Every process of the directory runs, registered, and no send has failed.
NoLoss ==
  /\ live = dir
  /\ ~lost
  /\ \A p \in live : reg[p] # "failed"

\* The for loop of process p hands the next item to parse_message in this
\* step.
Dispatches(p) ==
  /\ pc[p] = "for"
  /\ harvested[p] # <<>>
  /\ owed'[p] = owed[p] - 1

DispatchedKind(p)   == Head(harvested[p])[1]
DispatchedSender(p) == Head(harvested[p])[2]

\* The waiting window of process p ends in this step.
Expires(p) == pc[p] = "window" /\ pc'[p] # "window"

\* Among the sends o of a step: one of this kind to d, delivered or not.
SentIn(o, d, kind) == \E ok \in BOOLEAN : <<d, kind, ok>> \in o

KindIn(o, kind) == \E d \in Procs \cup {idU} : SentIn(o, d, kind)

SentKind(p, kind) == KindIn(out[p], kind)

\* harvest_messages of p is between message_sync.clear() and
\* message_sync.set().
InDrain(p) == pc[p] \in {"swap", "flag_clear", "sync_set"}

\* Handler thread h of p appends (line 60), sets the flag (line 61), in
\* this step.
Appends(p, h)  == hnd[p][h].st = "append" /\ hnd'[p][h].st = "flag"
SetsFlag(p, h) == hnd[p][h].st = "flag" /\ hnd'[p][h].st = "idle"

\* C1: in a group with unique ProcessIDs, no message loss and every process
\* live, the leaders converge: from some moment on every process's leader
\* is the maximum ProcessID of the group.
C1_Converges ==
  <>[](NoLoss => \A p \in live : leader[p] = MaxID(live))

\* C2: with A=(5,100), B=(5,200), C=(5,300) all running and no message
\* loss, neither A nor B ever sets leader to itself or sends COORDINATOR.
C2_LowerNeverDeclare ==
  (dir = {idA, idB, idC} /\ NoLoss) =>
    \A p \in {idA, idB} : leader[p] # p /\ ~SentKind(p, "COORDINATOR")


\* C3: when parse_message is given an ELECTION of a peer S, a receiver
\* whose ProcessID is higher than S's sends OK to S and begins its own
\* election, and a receiver whose ProcessID is lower sends no OK to S.
C3_ElectionReply ==
  [][\A p \in Procs :
       (/\ Dispatches(p)
        /\ DispatchedKind(p) = "ELECTION"
        /\ DispatchedSender(p) \in member[p])
       => /\ Higher(p, DispatchedSender(p)) =>
               /\ SentIn(out'[p], DispatchedSender(p), "OK")
               /\ pc'[p] = "start_election"
          /\ Higher(DispatchedSender(p), p) =>
               ~SentIn(out'[p], DispatchedSender(p), "OK")]_vars

\* C4: a process that received, during its waiting window, the OK of a
\* higher peer it had sent ELECTION to does not set leader to itself and
\* does not go on to announce itself when the window ends.
C4_OKSuppresses ==
  [][\A p \in Procs :
       (Expires(p) /\ \E s \in gotOK[p] : s \in HigherPeers(p) /\ Higher(s, p))
       => leader'[p] # p /\ pc'[p] # "announce"]_vars

\* C5: whenever parse_message is given a COORDINATOR of sender S, whatever
\* the leader was, the leader is S right after it.
C5_AdoptsCoordinator ==
  [][\A p \in Procs :
       (Dispatches(p) /\ DispatchedKind(p) = "COORDINATOR")
       => leader'[p] = DispatchedSender(p)]_vars

\* A process that had made itself the leader follows a lower peer whose
\* COORDINATOR was dispatched.
C5_Witness ==
  /\ live = {idB}
  /\ leader[idB] = idA
  /\ pc[idB] = "for"

\* C6: every item report_message appended is in the buffer, or in the list
\* a harvest_messages call returned and the poll loop still reads, or has
\* been dispatched: none is dropped and none is there twice.
C6_ExactlyOnce ==
  \A p \in Procs : owed[p] = Len(messages[p]) + Len(harvested[p])

\* C7: while harvest_messages is between message_sync.clear() and
\* message_sync.set(), no handler thread appends to the buffer or sets
\* message_flag.
C7_Exclusion ==
  [][\A p \in Procs :
       InDrain(p) => \A h \in Handlers : ~Appends(p, h) /\ ~SetsFlag(p, h)]_vars


\* A handler thread of p has appended its message and not yet set the flag.
Appended(p) == \E h \in Handlers : hnd[p][h].st = "flag"

\* The poll loop of p holds a harvested item for parse_message.
AtDispatch(p) == pc[p] = "for" /\ harvested[p] # <<>>

\* C8: from the constructed Client on, a message a handler decoded while no
\* drain is underway is eventually appended by report_message, and an
\* appended message is eventually handed to parse_message by the poll loop.
C8_Totality ==
  \A p \in Procs :
    /\ (waiting[p] # EmptyBag /\ ~InDrain(p)) ~> Appended(p)
    /\ Appended(p) ~> AtDispatch(p)

\* Process p has sent COORDINATOR to every other member.
Announced(p) == \A d \in OtherPeers(p) : SentIn(out[p], d, "COORDINATOR")

\* C9: a process about to start its election whose only higher peer is D,
\* with D accepting no connection, eventually has itself as the leader and
\* has sent COORDINATOR to every other member.
C9_DeadHigherPeer ==
  \A p \in Procs :
    (/\ pc[p] = "start_election"
     /\ HigherPeers(p) = {idD}
     /\ idD \notin live \cup up)
    ~> (leader[p] = p /\ Announced(p))

\* C made itself the leader after its ELECTION to D failed.
C9_Witness ==
  /\ HigherPeers(idC) = {idD}
  /\ idD \notin live \cup up
  /\ lost
  /\ leader[idC] = idC
  /\ Announced(idC)
  /\ pc[idC] = "poll"

\* C10: a process whose registration failed never starts the listener,
\* never starts an election, never sets leader and sends nothing.
C10_RegistrationFatal ==
  \A p \in Procs :
    reg[p] = "failed" =>
      /\ serving[p] = "off"
      /\ pc[p] \notin {"start_election", "window", "poll"}
      /\ leader[p] = None
      /\ out[p] = {}

\* C11: dispatching a message whose kind is none of ELECTION, OK and
\* COORDINATOR, or whose sender is no key of self.member, leaves leader
\* unchanged, starts no election and sends no message.
C11_ViolationsIgnored ==
  [][\A p \in Procs :
       (/\ Dispatches(p)
        /\ \/ DispatchedKind(p) \notin Kinds
           \/ DispatchedSender(p) \notin member[p])
       => /\ leader'[p] = leader[p]
          /\ pc'[p] # "start_election"
          /\ out'[p] = {}
          /\ net' = net]_vars

\* What a handler read is no (kind, senderID) pair.
NoPair(m) == m \notin (Kinds \cup {OtherKind}) \X (Procs \cup {idU})

\* A handler of p reads bytes that are no pair, in this step.
ReadsNoPair(p) ==
  \E m \in BagToSet(net[p]) :
    NoPair(m) /\ net'[p] = net[p] (-) SetToBag({m})

\* C12: a handler that reads bytes that decode to no (kind, senderID) pair
\* deposits nothing: no thread joins those of report_message, the buffer
\* and message_flag are unchanged; and the listener goes on serving.
C12_MalformedDiscarded ==
  /\ [][\A p \in Procs :
          ReadsNoPair(p)
          => /\ waiting'[p] = waiting[p]
             /\ hnd'[p] = hnd[p]
             /\ messages'[p] = messages[p]
             /\ harvested'[p] = harvested[p]
             /\ message_flag'[p] = message_flag[p]
             /\ owed'[p] = owed[p]
             /\ serving'[p] = "on"]_vars
  /\ [](\A p \in Procs : discarded[p] # "none" => serving[p] = "on")

\* After a handler discarded malformed bytes, a later well-formed message
\* was decoded and report_message deposited it.
C12_Witness ==
  \E p \in Procs :
    /\ discarded[p] = "later"
    /\ messages[p] # <<>>
    /\ message_flag[p]

\* What the sends of kind to the receivers ds must have done when none is
\* abandoned: every receiver was tried once, and every live receiver that
\* accepts has one more message of p on its connections.
AllTried(p, ds, kind) ==
  /\ out'[p] = {<<d, kind, Accepts(d)>> : d \in ds}
  /\ \A d \in Procs :
       net'[d] = IF d \in ds /\ d \in live /\ Accepts(d)
                 THEN net[d] (+) SetToBag({<<kind, p>>})
                 ELSE net[d]

\* C13: when a send of an ELECTION or COORDINATOR broadcast fails, the
\* message is dropped and not sent again, the caller goes on as after a
\* broadcast without failure, leader is what it was, and every other
\* receiver of the broadcast was sent to.
C13_SendFailuresAbsorbed ==
  [][\A p \in Procs :
       /\ (/\ pc[p] = "start_election" /\ pc'[p] # "start_election"
           /\ SomeFailed(p, HigherPeers(p)))
          => /\ pc'[p] = "window"
             /\ leader'[p] = None
             /\ AllTried(p, HigherPeers(p), "ELECTION")
       /\ (/\ pc[p] = "announce" /\ pc'[p] # "announce"
           /\ SomeFailed(p, OtherPeers(p)))
          => /\ pc'[p] = ret[p]
             /\ leader'[p] = leader[p]
             /\ AllTried(p, OtherPeers(p), "COORDINATOR")]_vars

\* A COORDINATOR broadcast in which one send failed and a later peer was
\* reached.
C13_Witness ==
  \E p \in live : \E d, e \in member[p] :
    /\ leader[p] = p
    /\ pc[p] = "poll"
    /\ <<d, "COORDINATOR", FALSE>> \in out[p]
    /\ <<e, "COORDINATOR", TRUE>> \in out[p]
    /\ e \in live /\ BagIn(<<"COORDINATOR", p>>, net[e] (+) waiting[e])

\* C14: dispatching a COORDINATOR of S while leader is S already leaves
\* leader at S, sends nothing and moves the main thread nowhere else: the
\* state after the second of two COORDINATORs of S is the state after the
\* first.
C14_CoordinatorIdempotent ==
  [][\A p \in Procs :
       (/\ Dispatches(p)
        /\ DispatchedKind(p) = "COORDINATOR"
        /\ leader[p] = DispatchedSender(p))
       => /\ leader'[p] = leader[p]
          /\ out'[p] = {}
          /\ net' = net
          /\ pc'[p] = pc[p] /\ ret'[p] = ret[p]
          /\ member'[p] = member[p]]_vars

\* Both messages of the peers were COORDINATORs of A: the first made A the
\* leader of B, the second is the next item of the for loop.
C14_Witness ==
  /\ live = {idB}
  /\ budget = 0
  /\ leader[idB] = idA
  /\ pc[idB] = "for"
  /\ harvested[idB] = << <<"COORDINATOR", idA>> >>
  /\ owed[idB] = 1

\* C15: the comparison of ProcessIDs the election makes agrees with the
\* lexicographic order: the peers start_election chooses for ELECTION are
\* the members lexicographically higher than the process, and parse_message
\* answers the ELECTION of a sender exactly if the receiver is
\* lexicographically higher than the sender.
C15_LexicographicOrder ==
  [][\A p \in Procs :
       /\ (pc[p] = "start_election" /\ pc'[p] # "start_election")
          => HigherPeers(p) = {d \in member[p] : Higher(d, p)}
       /\ (/\ Dispatches(p)
           /\ DispatchedKind(p) = "ELECTION"
           /\ DispatchedSender(p) # p)
          => (AnswersElection(p, DispatchedSender(p))
                <=> Higher(p, DispatchedSender(p)))]_vars

\* The weight of the edge from u to v of graph g.
Weight(g, u, v) == g.edges[EdgeIndex(g.edges, u, v)][3]

HasEdge(g, u, v) == EdgeIndex(g.edges, u, v) # 0

\* The paths of g that begin with the path f and repeat no vertex.
RECURSIVE PathsFrom(_, _)
PathsFrom(g, f) ==
  {f} \cup UNION {PathsFrom(g, Append(f, g.edges[i][2])) :
                    i \in {k \in 1 .. Len(g.edges) :
                             /\ g.edges[k][1] = f[Len(f)]
                             /\ \A n \in 1 .. Len(f) : f[n] # g.edges[k][2]}}

\* The paths of g from a to b that repeat no vertex.
Paths(g, a, b) == {f \in PathsFrom(g, <<a>>) : f[Len(f)] = b}

RECURSIVE PathWeight(_, _)
PathWeight(g, f) ==
  IF Len(f) < 2 THEN 0
  ELSE Weight(g, f[1], f[2]) + PathWeight(g, Tail(f))

\* The cycles of g: a path repeating no vertex, closed by an edge from its
\* last vertex to its first.
Cycles(g) ==
  {f \in UNION {PathsFrom(g, <<a>>) : a \in g.vertices} :
     Len(f) >= 2 /\ HasEdge(g, f[Len(f)], f[1])}

CycleWeight(g, f) == PathWeight(g, f) + Weight(g, f[Len(f)], f[1])

NegativeCycles(g) == {f \in Cycles(g) : CycleWeight(g, f) < 0}

\* Edge (u, v) is one of the edges of cycle f.
OnCycle(f, u, v) ==
  \/ \E i \in 1 .. Len(f) - 1 : f[i] = u /\ f[i + 1] = v
  \/ f[Len(f)] = u /\ f[1] = v

\* The minimum total weight of the paths from a to b, inf without a path.
\* Without a negative cycle no path that repeats a vertex weighs less.
MinWeight(g, a, b) ==
  LET weights == {PathWeight(g, f) : f \in Paths(g, a, b)}
  IN  IF weights = {} THEN inf
      ELSE <<CHOOSE d \in weights : \A e \in weights : d <= e>>

\* C16: a shortest_paths call with tolerance 0 on a graph without negative
\* cycle returns negative_cycle None, for every vertex the minimum weight
\* of the paths from the start (0 for the start, inf if there is none), and
\* as predecessor the vertex before it on a path of minimum weight (None
\* for the start and for a vertex without path).
C16_ShortestPaths ==
  (bf.ret # None /\ NegativeCycles(bf) = {}) =>
    LET start == bf.call[1]
        distance == bf.ret[1]
        predecessor == bf.ret[2]
        least == [v \in bf.vertices |-> MinWeight(bf, start, v)]
    IN  /\ bf.ret[3] = None
        /\ \A v \in bf.vertices :
             /\ distance[v] = least[v]
             /\ (v = start \/ least[v] = inf) => predecessor[v] = None
             /\ (v # start /\ least[v] # inf)
                  => /\ predecessor[v] # None
                     /\ HasEdge(bf, predecessor[v][1], v)
                     /\ least[predecessor[v][1]] # inf
                     /\ least[v][1] = least[predecessor[v][1]][1]
                                        + Weight(bf, predecessor[v][1], v)

\* A call on a graph without negative cycle in which a vertex is reached
\* over two edges, one of them negative, for less than over the edge from
\* the start.
C16_Witness ==
  /\ bf.ret # None
  /\ NegativeCycles(bf) = {}
  /\ \E v \in bf.vertices :
       /\ HasEdge(bf, bf.call[1], v)
       /\ bf.ret[2][v] # None
       /\ bf.ret[2][v][1] # bf.call[1]
       /\ bf.ret[1][v][1] < Weight(bf, bf.call[1], v)
       /\ \E u \in bf.vertices \ {v} : HasEdge(bf, u, v) /\ Weight(bf, u, v) < 0

\* C17: a shortest_paths call with tolerance 0 returns negative_cycle None
\* exactly if the graph has no negative cycle, and otherwise an edge
\* (u, v) of a negative cycle of the graph.
C17_NegativeCycle ==
  bf.ret # None =>
    /\ bf.ret[3] = None <=> NegativeCycles(bf) = {}
    /\ bf.ret[3] # None =>
         \E f \in NegativeCycles(bf) : OnCycle(f, bf.ret[3][1], bf.ret[3][2])

\* The sends of a step of p are of this kind, one to each of the receivers
\* ds, and nothing else.
OneEach(p, ds, kind) ==
  /\ \A d \in Procs \cup {idU} : SentIn(out'[p], d, kind) <=> d \in ds
  /\ \A d \in ds : ~(<<d, kind, TRUE>> \in out'[p] /\ <<d, kind, FALSE>> \in out'[p])
  /\ \A k \in (Kinds \cup {OtherKind}) \ {kind} : ~KindIn(out'[p], k)
  /\ \A d \in Procs :
       net'[d] = IF d \in ds /\ d \in live /\ Accepts(d)
                 THEN net[d] (+) SetToBag({<<kind, p>>})
                 ELSE net[d]

\* C18: start_election clears leader and, before the waiting window
\* begins, sends ELECTION once to every member whose ProcessID is higher
\* than the process's own, and to no other.
C18_StartElection ==
  [][\A p \in Procs :
       (pc[p] = "start_election" /\ pc'[p] # "start_election")
       => /\ leader'[p] = None
          /\ pc'[p] = "window"
          /\ OneEach(p, {d \in member[p] : Higher(d, p)}, "ELECTION")]_vars

\* C19: when the waiting window ends with no leader set, the process makes
\* itself the leader and announces it; the announcement sends COORDINATOR
\* once to every other member and not to the process itself, and the
\* process is its own leader when it sends and after.
C19_SelfDeclare ==
  [][\A p \in Procs :
       /\ (Expires(p) /\ NoLeader(p))
          => leader'[p] = p /\ pc'[p] = "announce"
       /\ (pc[p] = "announce" /\ pc'[p] # "announce")
          => /\ leader[p] = p /\ leader'[p] = p
             /\ OneEach(p, member[p] \ {p}, "COORDINATOR")]_vars

\* A process announced itself to two other members.
C19_Witness ==
  \E p \in live :
    /\ leader[p] = p
    /\ pc[p] = "poll"
    /\ Cardinality(member[p] \ {p}) >= 2
    /\ \A d \in member[p] \ {p} : SentIn(out[p], d, "COORDINATOR")
    /\ out[p] = Sends(p, member[p] \ {p}, "COORDINATOR")

\* A step of a listener handler thread of p.
HandlerStep(p) == handle(p) \/ \E h \in Handlers : HandlerThread(p, h)

\* C20: a step of a listener handler thread leaves every leader and
\* directory as it was and sends nothing; a leader changes in steps of the
\* main thread of its process only.
C20_HandlersFrame ==
  [][/\ (\E p \in Procs : HandlerStep(p))
        => /\ UNCHANGED <<leader, member, dir, out, lost, pc, ret>>
           /\ \A d \in Procs : net'[d] \sqsubseteq net[d]
     /\ \A p \in Procs : leader'[p] # leader[p] => MainThread(p)]_vars

\* A handler thread appended the COORDINATOR of a peer that is not the
\* leader of its process.
C20_Witness ==
  \E p \in live : \E h \in Handlers :
    /\ hnd[p][h].st = "flag"
    /\ hnd[p][h].msg[1] = "COORDINATOR"
    /\ hnd[p][h].msg[2] # leader[p]
    /\ leader[p] = p
    /\ messages[p] # <<>>

\* C21: with every process live and no message lost, no process other
\* than the one with the maximum ProcessID of the group has sent
\* COORDINATOR, and a leader that is the maximum ProcessID is not replaced
\* by another.
C21_OnlyWinnerAnnounces ==
  /\ [](NoLoss => \A p \in live :
                    (pc[p] = "announce" \/ SentKind(p, "COORDINATOR"))
                    => p = MaxID(live))
  /\ [][NoLoss => \A p \in live :
                    leader[p] = MaxID(live) => leader'[p] = MaxID(live)]_vars

Quiet(p) ==
  /\ \A h \in Handlers : hnd[p][h].st = "idle"
  /\ ~InDrain(p)

\* C23: whenever no report_message and no harvest_messages call is in the
\* middle of its execution, a buffer that is not empty has message_flag
\* set, so the next turn of the poll loop drains it.
C23_NoLostWakeup ==
  \A p \in Procs :
    (Quiet(p) /\ messages[p] # <<>>) => message_flag[p]

\* The graph of the Subscriber has the edge from a to b.
QuoteEdge(a, b) ==
  DictHas(sub.graph, a) /\ DictHas(DictGet(sub.graph, a), b)

\* The weight of that edge.
QuoteWeight(a, b) == DictGet(DictGet(sub.graph, a), b)

\* The step is a call of process_quote; sub'.quote is the quote it was
\* given.
Quoted == sub'.calls = sub.calls + 1

\* The quote q is no later than the quote recorded for its pair.
Late(q) ==
  /\ <<q[1], q[2]>> \in DOMAIN sub.latest_ts
  /\ q[4] <= sub.latest_ts[<<q[1], q[2]>>]

\* C24: process_quote of a quote whose timestamp is less than or equal to
\* the latest timestamp recorded for its pair leaves graph, latest_ts and
\* cycle unchanged; an accepted quote of a recorded pair records a strictly
\* later timestamp, and as long as a pair is recorded its timestamp never
\* decreases.
C24_OutOfSequenceIgnored ==
  [][/\ Quoted =>
          LET q == sub'.quote
          IN  IF Late(q)
              THEN /\ sub'.graph = sub.graph
                   /\ sub'.latest_ts = sub.latest_ts
                   /\ sub'.cycle = sub.cycle
              ELSE /\ <<q[1], q[2]>> \in DOMAIN sub'.latest_ts
                   /\ sub'.latest_ts[<<q[1], q[2]>>] = q[4]
                   /\ <<q[1], q[2]>> \in DOMAIN sub.latest_ts
                        => sub'.latest_ts[<<q[1], q[2]>>]
                             > sub.latest_ts[<<q[1], q[2]>>]
     /\ \A pr \in DOMAIN sub.latest_ts \cap DOMAIN sub'.latest_ts :
          sub'.latest_ts[pr] >= sub.latest_ts[pr]]_vars

\* An arbitrage cycle is recorded and the last quote was ignored: its
\* timestamp is no later than the one recorded for its pair and the graph
\* keeps another weight than the one it carried.
C24_Witness ==
  /\ sub.quote # None
  /\ sub.cycle # <<>>
  /\ <<sub.quote[1], sub.quote[2]>> \in DOMAIN sub.latest_ts
  /\ sub.quote[4] <= sub.latest_ts[<<sub.quote[1], sub.quote[2]>>]
  /\ QuoteEdge(sub.quote[1], sub.quote[2])
  /\ QuoteWeight(sub.quote[1], sub.quote[2]) # sub.quote[3]

\* C25: after any sequence of process_quote and rm_stale_quotes calls the
\* edge from a to b is in the graph exactly when the edge from b to a is,
\* their weights are negations of each other, and every pair recorded in
\* latest_ts has both of its edges in the graph.
C25_GraphConsistent ==
  /\ \A a, b \in Currencies :
       /\ QuoteEdge(a, b) <=> QuoteEdge(b, a)
       /\ QuoteEdge(a, b) => QuoteWeight(a, b) = -QuoteWeight(b, a)
  /\ \A pr \in DOMAIN sub.latest_ts :
       QuoteEdge(pr[1], pr[2]) /\ QuoteEdge(pr[2], pr[1])

====
